---- MODULE Spec2Model ----
(***************************************************************************)
(* Model of the nano-banana MCP tool server (src/src/index.ts): the        *)
(* credential fields, the last-image reference, the files the server reads *)
(* and writes, the startup resolution and the six tool handlers behind the  *)
(* CallTool dispatcher.  A tool call is one step: the handler runs to       *)
(* completion and its result, the requests it sent and the files it touched *)
(* are recorded in lastCall until the response has been delivered.          *)
(***************************************************************************)
EXTENDS Integers, Sequences, FiniteSets, TLC

VARIABLES config, genAI, lastImagePath, configSource,
          files, configFile, envApiKey, envBaseUrl, host, pc, lastCall

vars == <<config, genAI, lastImagePath, configSource,
          files, configFile, envApiKey, envBaseUrl, host, pc, lastCall>>

----------------------------------------------------------------------------
(* JavaScript values.  A string that holds a file path carries the path     *)
(* record in the field path; every other string carries its text in v.      *)

Undef == [t |-> "undefined"]
Null == [t |-> "null"]
Str(s) == [t |-> "string", v |-> s]
Num(n) == [t |-> "number", v |-> n]
PathStr(p) == [t |-> "string", path |-> p]
Arr(q) == [t |-> "array", v |-> q]
Obj(r) == [t |-> "object", f |-> r]

Truthy(x) ==
  CASE x.t = "undefined" -> FALSE
    [] x.t = "null" -> FALSE
    [] x.t = "number" -> x.v # 0
    [] x.t = "string" -> IF "v" \in DOMAIN x THEN x.v # "" ELSE TRUE
    [] OTHER -> TRUE

----------------------------------------------------------------------------
(* Bounds of the model.                                                     *)

\* number of distinct timestamp-random suffixes an output file name can get
MaxId == 1
\* number of reference image paths a call may carry
MaxRefs == 2

----------------------------------------------------------------------------
(* Paths.  A path is its directory (a sequence of segments), the stem of    *)
(* its base name (prefix and suffix) and its extension as path.extname      *)
(* returns it.                                                              *)

MkPath(dir, prefix, id, ext) == [dir |-> dir, prefix |-> prefix, id |-> id, ext |-> ext]

UserDir == <<"home", "u", "pics">>
PhotoPath == MkPath(UserDir, "photo", 0, ".png")
RefPath == MkPath(UserDir, "ref", 0, ".JPEG")
GonePath == MkPath(UserDir, "gone", 0, ".webp")
NotesPath == MkPath(UserDir, "notes", 0, "")

\* what path.extname can return for a caller's file: the documented
\* extensions in lower, upper and mixed case, others, a lone dot, none
Extensions ==
  {".jpg", ".jpeg", ".png", ".webp", ".JPG", ".JPEG", ".PNG", ".WEBP", ".Png",
   ".gif", ".pngx", ".", ""}

\* one existing file of the caller per extension
PicPath(e) == MkPath(UserDir, "pic", 0, e)
MimePaths == { PicPath(e) : e \in Extensions }

\* the caller's files that exist on disk, with their bytes
UserFiles == {PhotoPath, RefPath, NotesPath} \cup MimePaths
UserPaths == UserFiles \cup {GonePath}

Hosts ==
  { [platform |-> "win32", cwd |-> <<"C:", "proj">>, home |-> <<"C:", "Users", "u">>],
    [platform |-> "linux", cwd |-> <<"srv", "app">>, home |-> <<"home", "u">>],
    [platform |-> "linux", cwd |-> <<"usr", "local", "lib">>, home |-> <<"home", "u">>] }

\* cwd.startsWith('/usr/') on a cwd given by its segments
StartsWithDir(cwd, seg) == Len(cwd) >= 2 /\ cwd[1] = seg

getImagesDirectory(h) ==
  IF h.platform = "win32"
  THEN h.home \o <<"Documents", "nano-banana-images">>
  ELSE IF StartsWithDir(h.cwd, "usr") \/ StartsWithDir(h.cwd, "opt") \/ StartsWithDir(h.cwd, "var")
       THEN h.home \o <<"nano-banana-images">>
       ELSE h.cwd \o <<"generated_imgs">>

OutPaths(h) ==
  { MkPath(getImagesDirectory(h), pre, id, ".png") :
      pre \in {"generated-", "edited-"}, id \in 1..MaxId }

\* String.prototype.toLowerCase on the extensions of the model
toLowerCase(e) ==
  CASE e = ".JPEG" -> ".jpeg"
    [] e = ".JPG" -> ".jpg"
    [] e = ".PNG" -> ".png"
    [] e = ".Png" -> ".png"
    [] e = ".WEBP" -> ".webp"
    [] OTHER -> e

\* variant: the extension is compared as written, without toLowerCase
getMimeTypeAsWritten(p) ==
  LET ext == p.ext
  IN CASE ext = ".jpg" -> "image/jpeg"
       [] ext = ".jpeg" -> "image/jpeg"
       [] ext = ".png" -> "image/png"
       [] ext = ".webp" -> "image/webp"
       [] OTHER -> "image/jpeg"

getMimeType(p) ==
  LET ext == toLowerCase(p.ext)
  IN CASE ext = ".jpg" -> "image/jpeg"
       [] ext = ".jpeg" -> "image/jpeg"
       [] ext = ".png" -> "image/png"
       [] ext = ".webp" -> "image/webp"
       [] OTHER -> "image/jpeg"

----------------------------------------------------------------------------
(* File contents.  Image data travels as base64 text; a buffer is the       *)
(* decoded bytes, of which the model keeps the length and the text that     *)
(* encodes them.                                                            *)

NoFile == [len |-> -1, b64 |-> ""]

\* decoded byte length of the base64 samples
Base64Len(d) ==
  CASE d = "QUJD" -> 300
    [] d = "REVG" -> 1536
    [] d = "cGhvdG8=" -> 2048
    [] d = "cmVm" -> 700
    [] d = "bm90ZXM=" -> 40
    [] d = "cGlj" -> 3
    [] OTHER -> 0

BufferFrom(d) == [len |-> Base64Len(d), b64 |-> d]
toBase64(buf) == buf.b64

UserBytes(p) ==
  CASE p = PhotoPath -> BufferFrom("cGhvdG8=")
    [] p = RefPath -> BufferFrom("cmVm")
    [] p = NotesPath -> BufferFrom("bm90ZXM=")
    [] p \in MimePaths -> BufferFrom("cGlj")
    [] OTHER -> NoFile

\* the bytes at path p on a disk whose output directory holds fsys
FileAt(fsys, p) ==
  IF p \in DOMAIN fsys THEN fsys[p] ELSE UserBytes(p)

Exists(fsys, p) == FileAt(fsys, p) # NoFile

----------------------------------------------------------------------------
(* Credential: ConfigSchema, JSON text of the persisted file, the client.   *)

WellFormedUrls == {"https://proxy.example.com"}
MalformedUrl == "not a url"

MkConfig(key, url) == [t |-> "object", geminiApiKey |-> key, baseUrl |-> url]

IsNonEmptyString(x) == x.t = "string" /\ "v" \in DOMAIN x /\ x.v # ""
IsUrlString(x) == x.t = "string" /\ "v" \in DOMAIN x /\ x.v \in WellFormedUrls

\* ConfigSchema.parse succeeds
SchemaOk(c) ==
  /\ c.t = "object"
  /\ IsNonEmptyString(c.geminiApiKey)
  /\ (c.baseUrl = Undef \/ IsUrlString(c.baseUrl))

\* message of the first issue ConfigSchema.parse reports
FirstIssue(c) ==
  IF c.t # "object" THEN "Expected object"
  ELSE IF c.geminiApiKey = Undef THEN "Required"
  ELSE IF c.geminiApiKey.t # "string" THEN "Expected string"
  ELSE IF ~IsNonEmptyString(c.geminiApiKey) THEN "Gemini API key is required"
  ELSE IF c.baseUrl.t # "string" THEN "Expected string"
  ELSE "Base URL must be a valid URL"

NewClient(key, url) ==
  [t |-> "client", apiKey |-> key, baseUrl |-> IF Truthy(url) THEN url ELSE Undef]

\* JSON.stringify(config): members whose value is undefined are left out
JSONstringify(c) ==
  [kind |-> "json",
   members |-> { m \in { [k |-> "geminiApiKey", v |-> c.geminiApiKey],
                         [k |-> "baseUrl", v |-> c.baseUrl] } : m.v # Undef }]

Member(text, key) ==
  IF \E m \in text.members : m.k = key
  THEN (CHOOSE m \in text.members : m.k = key).v
  ELSE Undef

\* JSON.parse of a file text that is JSON
JSONparse(text) ==
  IF text.kind = "json"
  THEN MkConfig(Member(text, "geminiApiKey"), Member(text, "baseUrl"))
  ELSE Null

NoConfigFile == [kind |-> "absent", members |-> {}]
GarbageFile == [kind |-> "garbage", members |-> {}]

----------------------------------------------------------------------------
(* The state of the server as a record, so that a handler is a function of  *)
(* the state, its arguments and the outcomes of the calls it makes.         *)

Cur ==
  [config |-> config, genAI |-> genAI, lastImagePath |-> lastImagePath,
   configSource |-> configSource, files |-> files, configFile |-> configFile]

NoPath == MkPath(<<>>, "", 0, "")

\* variant: the credential check always passes
ensureConfiguredAlways(s) == TRUE

ensureConfigured(s) == s.config # Null /\ s.genAI # Null

----------------------------------------------------------------------------
(* Results, errors and the record of what a handler did.                    *)

Msg(text, path, detail) == [wrap |-> <<>>, text |-> text, path |-> path, detail |-> detail]

\* new McpError(code, message): the SDK prefixes the message with the code
McpError(code, m) ==
  [ok |-> FALSE, mcp |-> TRUE, code |-> code,
   message |-> [m EXCEPT !.wrap = <<"MCP error: ">> \o @]]

\* any other exception (TypeError, a rejected fs or network promise)
JsError(m) == [ok |-> FALSE, mcp |-> FALSE, code |-> "", message |-> m]

\* catch (error) { throw new McpError(code, prefix + error.message) }
Rethrow(code, prefix, e) ==
  McpError(code, [e.message EXCEPT !.wrap = <<prefix>> \o @])

Ok(content) == [ok |-> TRUE, content |-> content]

TextItem(text) == [type |-> "text", text |-> text]
ImageItem(data, mime) == [type |-> "image", data |-> data, mimeType |-> mime]

NoFx == [requests |-> <<>>, reads |-> <<>>, writes |-> <<>>]

Outcome(s, res, fx) == [s |-> s, res |-> res, fx |-> fx]

NotConfiguredText == "Gemini API token not configured. Use configure_gemini_token first."
NoPreviousImageText == "No previous image found. Please generate or edit an image first, then use continue_editing for subsequent edits."
LastImageMissingText == "Last image file not found at: "
DestructureText == "Cannot destructure property of undefined"

ModelName == "gemini-2.5-flash-image-preview"

----------------------------------------------------------------------------
(* The external generation service and the disk are the environment: o     *)
(* gives the response of the service to the request of this call, the       *)
(* suffixes the output file names get, and which write fails, if any.       *)

TextPart(txt) == [text |-> txt, inline |-> FALSE, data |-> "", mimeType |-> ""]
InlinePart(d, mime) == [text |-> "", inline |-> TRUE, data |-> d, mimeType |-> mime]

Candidate(fr, parts) == [finishReason |-> fr, parts |-> parts]
Rejected == [kind |-> "throw", candidates |-> <<>>]
Response(cands) == [kind |-> "resp", candidates |-> cands]

---------------------------------------------------------------------------------------------------------------------------------------------------
(* Processing of the response parts, shared shape of both handlers          *)

NewAcc(s) ==
  [files |-> s.files, last |-> s.lastImagePath, saved |-> <<>>, written |-> <<>>,
   content |-> <<>>, text |-> <<>>, n |-> 0, thrown |-> FALSE]

\* textContent += part.text
addText(acc, part) ==
  IF part.text # "" THEN [acc EXCEPT !.text = Append(@, part.text)] ELSE acc

\* fs.writeFile(filePath, imageBuffer), savedFiles.push, this.lastImagePath =
\* filePath, content.push: the write that o.failAt names throws instead
saveImage(acc, part, filePath, o) ==
  IF o.failAt = acc.n + 1
  THEN [acc EXCEPT !.thrown = TRUE]
  ELSE [acc EXCEPT !.n = @ + 1,
                   !.files = [@ EXCEPT ![filePath] = BufferFrom(part.data)],
                   !.saved = Append(@, filePath),
                   !.written = Append(@, [path |-> filePath, bytes |-> BufferFrom(part.data).len]),
                   !.last = PathStr(filePath),
                   !.content = Append(@, ImageItem(part.data,
                        IF part.mimeType # "" THEN part.mimeType ELSE "image/png"))]

\* variant: the last-image reference is recorded only when every write succeeded
AccStateOnSuccess(s, acc) ==
  IF acc.thrown THEN [s EXCEPT !.files = acc.files]
  ELSE [s EXCEPT !.files = acc.files, !.lastImagePath = acc.last]

\* variant: a call that saved no image leaves no last image behind
AccStateFresh(s, acc) ==
  [s EXCEPT !.files = acc.files,
            !.lastImagePath = IF acc.saved = <<>> THEN Null ELSE acc.last]

\* the fields of the server once the parts have been processed
AccState(s, acc) == [s EXCEPT !.files = acc.files, !.lastImagePath = acc.last]

WithWrites(fx, acc) == [fx EXCEPT !.writes = acc.written]

----------------------------------------------------------------------------
(* generate_image                                                           *)

generatePart(acc, part, dir, o) ==
  IF part.inline /\ part.data # ""
  THEN saveImage(acc, part, MkPath(dir, "generated-", o.ids[acc.n + 1], ".png"), o)
  ELSE acc

RECURSIVE generateParts(_, _, _, _)
generateParts(parts, acc, dir, o) ==
  IF parts = <<>> \/ acc.thrown THEN acc
  ELSE generateParts(Tail(parts), generatePart(addText(acc, Head(parts)), Head(parts), dir, o), dir, o)

GenerateFx(prompt) ==
  [NoFx EXCEPT !.requests = <<[model |-> ModelName, contents |-> prompt]>>]

GenerateStatus(prompt, acc) ==
  [template |-> "generated", prompt |-> prompt, description |-> acc.text, saved |-> acc.saved]

\* variant: the summary text is pushed after the image items
generateResultTextLast(s, prompt, acc) ==
  IF acc.thrown
  THEN Outcome(AccState(s, acc), JsError(Msg("writeFile failed", NoPath, "")),
               WithWrites(GenerateFx(prompt), acc))
  ELSE Outcome(AccState(s, acc), Ok(acc.content \o <<TextItem(GenerateStatus(prompt, acc))>>),
               WithWrites(GenerateFx(prompt), acc))

\* the end of the try block, once the parts have been processed into acc
generateResult(s, prompt, acc) ==
  IF acc.thrown
  THEN Outcome(AccState(s, acc), JsError(Msg("writeFile failed", NoPath, "")),
               WithWrites(GenerateFx(prompt), acc))
  ELSE Outcome(AccState(s, acc), Ok(<<TextItem(GenerateStatus(prompt, acc))>> \o acc.content),
               WithWrites(GenerateFx(prompt), acc))

generateBody(s, prompt, o) ==
  IF o.resp.kind = "throw"
  THEN Outcome(s, JsError(Msg("request to the generation service failed", NoPath, "")), GenerateFx(prompt))
  ELSE IF Len(o.resp.candidates) = 0
  THEN Outcome(s, McpError("InternalError", Msg("No candidates in response from Gemini API", NoPath, "")),
               GenerateFx(prompt))
  ELSE IF o.resp.candidates[1].finishReason = ""
  THEN Outcome(s, McpError("InternalError",
                  Msg("Response missing finish reason - generation may have been interrupted", NoPath, "")),
               GenerateFx(prompt))
  ELSE IF o.resp.candidates[1].finishReason # "STOP" /\ o.resp.candidates[1].finishReason # "MAX_TOKENS"
  THEN Outcome(s, McpError("InternalError",
                  Msg("Generation failed with finish reason: ", NoPath, o.resp.candidates[1].finishReason)),
               GenerateFx(prompt))
  ELSE IF o.mkdirFail
  THEN Outcome(s, JsError(Msg("mkdir failed", NoPath, "")), GenerateFx(prompt))
  ELSE generateResult(s, prompt,
         generateParts(o.resp.candidates[1].parts, NewAcc(s), getImagesDirectory(host), o))

\* catch (error) of a handler: whatever the try block threw becomes InternalError
Caught(prefix, body) ==
  IF body.res.ok THEN body
  ELSE Outcome(body.s, Rethrow("InternalError", prefix, body.res), body.fx)

generateImage(s, args, o) ==
  IF ~ensureConfigured(s)
  THEN Outcome(s, McpError("InvalidRequest", Msg(NotConfiguredText, NoPath, "")), NoFx)
  ELSE IF args.t # "object"
  THEN Outcome(s, JsError(Msg(DestructureText, NoPath, "")), NoFx)
  ELSE Caught("Failed to generate image: ", generateBody(s, args.f.prompt, o))

----------------------------------------------------------------------------
(* edit_image                                                               *)

IsPathString(x) == x.t = "string" /\ "path" \in DOMAIN x

\* fs.readFile(x) resolves
Readable(fsys, x) == IsPathString(x) /\ Exists(fsys, x.path)

InlineData(fsys, x) ==
  [kind |-> "inlineData", data |-> toBase64(FileAt(fsys, x.path)),
   mimeType |-> getMimeType(x.path), text |-> Undef]

PromptPart(prompt) == [kind |-> "text", data |-> "", mimeType |-> "", text |-> prompt]

\* referenceImages.length, and the elements a for..of visits
LengthOf(x) ==
  CASE x.t = "array" -> Len(x.v)
    [] x.t = "string" /\ "v" \in DOMAIN x -> IF x.v = "" THEN 0 ELSE 1
    [] OTHER -> 0

Elements(x) ==
  CASE x.t = "array" -> x.v
    [] x.t = "string" /\ "v" \in DOMAIN x -> IF x.v = "" THEN <<>> ELSE <<x>>
    [] OTHER -> <<>>

\* referenceImages && referenceImages.length > 0
UseRefs(referenceImages) == Truthy(referenceImages) /\ LengthOf(referenceImages) > 0

RefsOf(referenceImages) ==
  IF UseRefs(referenceImages) THEN Elements(referenceImages) ELSE <<>>

RECURSIVE readReferencesStops(_, _, _)
RECURSIVE readReferences(_, _, _)
\* variant: the first reference that cannot be read ends the loop
readReferencesStops(refs, fsys, imageParts) ==
  IF refs = <<>> \/ ~Readable(fsys, Head(refs)) THEN imageParts
  ELSE readReferencesStops(Tail(refs), fsys, Append(imageParts, InlineData(fsys, Head(refs))))

readReferences(refs, fsys, imageParts) ==
  IF refs = <<>> THEN imageParts
  ELSE readReferences(Tail(refs), fsys,
         IF Readable(fsys, Head(refs))
         THEN Append(imageParts, InlineData(fsys, Head(refs)))
         ELSE imageParts)

\* the parts of the request: the main image, the readable references, the prompt
ImageParts(s, imagePath, prompt, referenceImages) ==
  Append(readReferences(RefsOf(referenceImages), s.files, <<InlineData(s.files, imagePath)>>),
         PromptPart(prompt))

EditFx(s, imagePath, prompt, referenceImages) ==
  [requests |-> <<[model |-> ModelName,
                   contents |-> [parts |-> ImageParts(s, imagePath, prompt, referenceImages)]]>>,
   reads |-> <<imagePath>> \o RefsOf(referenceImages),
   writes |-> <<>>]

editPart(acc, part, dir, o) ==
  IF part.inline
  THEN IF part.data # ""
       THEN saveImage(acc, part, MkPath(dir, "edited-", o.ids[acc.n + 1], ".png"), o)
       ELSE acc
  ELSE acc

RECURSIVE editParts(_, _, _, _)
editParts(parts, acc, dir, o) ==
  IF parts = <<>> \/ acc.thrown THEN acc
  ELSE editParts(Tail(parts), editPart(addText(acc, Head(parts)), Head(parts), dir, o), dir, o)

EditStatus(imagePath, prompt, referenceImages, acc) ==
  [template |-> "edited", original |-> imagePath, prompt |-> prompt,
   references |-> IF UseRefs(referenceImages) THEN referenceImages ELSE Undef,
   description |-> acc.text, saved |-> acc.saved]

\* the end of the try block, once the parts have been processed into acc
editResult(s, imagePath, prompt, referenceImages, acc, fx) ==
  IF acc.thrown
  THEN Outcome(AccState(s, acc), JsError(Msg("writeFile failed", NoPath, "")), WithWrites(fx, acc))
  ELSE IF UseRefs(referenceImages) /\ referenceImages.t # "array"
  THEN Outcome(AccState(s, acc), JsError(Msg("referenceImages.map is not a function", NoPath, "")),
               WithWrites(fx, acc))
  ELSE Outcome(AccState(s, acc),
               Ok(<<TextItem(EditStatus(imagePath, prompt, referenceImages, acc))>> \o acc.content),
               WithWrites(fx, acc))

\* variant: the parts are processed whatever the completion status is
editRequestLenient(s, imagePath, prompt, referenceImages, o, fx) ==
  IF o.resp.kind = "throw"
  THEN Outcome(s, JsError(Msg("request to the generation service failed", NoPath, "")), fx)
  ELSE IF Len(o.resp.candidates) = 0
  THEN Outcome(s, McpError("InternalError", Msg("No candidates in response from Gemini API", NoPath, "")), fx)
  ELSE IF o.mkdirFail
  THEN Outcome(s, JsError(Msg("mkdir failed", NoPath, "")), fx)
  ELSE editResult(s, imagePath, prompt, referenceImages,
         editParts(o.resp.candidates[1].parts, NewAcc(s), getImagesDirectory(host), o), fx)

\* the try block from the request on; fx holds the request that was sent
editRequest(s, imagePath, prompt, referenceImages, o, fx) ==
  IF o.resp.kind = "throw"
  THEN Outcome(s, JsError(Msg("request to the generation service failed", NoPath, "")), fx)
  ELSE IF Len(o.resp.candidates) = 0
  THEN Outcome(s, McpError("InternalError", Msg("No candidates in response from Gemini API", NoPath, "")), fx)
  ELSE IF o.resp.candidates[1].finishReason = ""
  THEN Outcome(s, McpError("InternalError",
                  Msg("Response missing finish reason - generation may have been interrupted", NoPath, "")), fx)
  ELSE IF o.resp.candidates[1].finishReason # "STOP" /\ o.resp.candidates[1].finishReason # "MAX_TOKENS"
  THEN Outcome(s, McpError("InternalError",
                  Msg("Generation failed with finish reason: ", NoPath, o.resp.candidates[1].finishReason)), fx)
  ELSE IF o.mkdirFail
  THEN Outcome(s, JsError(Msg("mkdir failed", NoPath, "")), fx)
  ELSE editResult(s, imagePath, prompt, referenceImages,
         editParts(o.resp.candidates[1].parts, NewAcc(s), getImagesDirectory(host), o), fx)

\* variant: the image being edited is recorded as the last image
editBodyRecordsInput(s, imagePath, prompt, referenceImages, o) ==
  IF ~Readable(s.files, imagePath)
  THEN Outcome(s, JsError(Msg("readFile failed", NoPath, "")), [NoFx EXCEPT !.reads = <<imagePath>>])
  ELSE editRequest([s EXCEPT !.lastImagePath = imagePath], imagePath, prompt, referenceImages, o,
                   EditFx(s, imagePath, prompt, referenceImages))

editBody(s, imagePath, prompt, referenceImages, o) ==
  IF ~Readable(s.files, imagePath)
  THEN Outcome(s, JsError(Msg("readFile failed", NoPath, "")), [NoFx EXCEPT !.reads = <<imagePath>>])
  ELSE editRequest(s, imagePath, prompt, referenceImages, o,
                   EditFx(s, imagePath, prompt, referenceImages))

editImage(s, args, o) ==
  IF ~ensureConfigured(s)
  THEN Outcome(s, McpError("InvalidRequest", Msg(NotConfiguredText, NoPath, "")), NoFx)
  ELSE IF args.t # "object"
  THEN Outcome(s, JsError(Msg(DestructureText, NoPath, "")), NoFx)
  ELSE Caught("Failed to edit image: ",
              editBody(s, args.f.imagePath, args.f.prompt, args.f.referenceImages, o))

-----
(* continue_editing, get_last_image_info                                    *)

EditArgs(imagePath, prompt, referenceImages) ==
  Obj([imagePath |-> imagePath, prompt |-> prompt, referenceImages |-> referenceImages])

\* variant: the arguments are destructured before the last-image check
continueEditingArgsFirst(s, args, o) ==
  IF ~ensureConfigured(s)
  THEN Outcome(s, McpError("InvalidRequest", Msg(NotConfiguredText, NoPath, "")), NoFx)
  ELSE IF args.t # "object"
  THEN Outcome(s, JsError(Msg(DestructureText, NoPath, "")), NoFx)
  ELSE IF ~Truthy(s.lastImagePath)
  THEN Outcome(s, McpError("InvalidRequest", Msg(NoPreviousImageText, NoPath, "")), NoFx)
  ELSE IF ~Exists(s.files, s.lastImagePath.path)
  THEN Outcome(s, McpError("InvalidRequest", Msg(LastImageMissingText, s.lastImagePath.path, "")), NoFx)
  ELSE editImage(s, EditArgs(s.lastImagePath, args.f.prompt, args.f.referenceImages), o)

\* variant: no existence check before the delegation
continueEditingNoAccess(s, args, o) ==
  IF ~ensureConfigured(s)
  THEN Outcome(s, McpError("InvalidRequest", Msg(NotConfiguredText, NoPath, "")), NoFx)
  ELSE IF ~Truthy(s.lastImagePath)
  THEN Outcome(s, McpError("InvalidRequest", Msg(NoPreviousImageText, NoPath, "")), NoFx)
  ELSE IF args.t # "object"
  THEN Outcome(s, JsError(Msg(DestructureText, NoPath, "")), NoFx)
  ELSE editImage(s, EditArgs(s.lastImagePath, args.f.prompt, args.f.referenceImages), o)

\* variant: the reference images are not passed on
continueEditingDropsRefs(s, args, o) ==
  IF ~ensureConfigured(s)
  THEN Outcome(s, McpError("InvalidRequest", Msg(NotConfiguredText, NoPath, "")), NoFx)
  ELSE IF ~Truthy(s.lastImagePath)
  THEN Outcome(s, McpError("InvalidRequest", Msg(NoPreviousImageText, NoPath, "")), NoFx)
  ELSE IF args.t # "object"
  THEN Outcome(s, JsError(Msg(DestructureText, NoPath, "")), NoFx)
  ELSE IF ~Exists(s.files, s.lastImagePath.path)
  THEN Outcome(s, McpError("InvalidRequest", Msg(LastImageMissingText, s.lastImagePath.path, "")), NoFx)
  ELSE editImage(s, EditArgs(s.lastImagePath, args.f.prompt, Undef), o)

continueEditing(s, args, o) ==
  IF ~ensureConfigured(s)
  THEN Outcome(s, McpError("InvalidRequest", Msg(NotConfiguredText, NoPath, "")), NoFx)
  ELSE IF ~Truthy(s.lastImagePath)
  THEN Outcome(s, McpError("InvalidRequest", Msg(NoPreviousImageText, NoPath, "")), NoFx)
  ELSE IF args.t # "object"
  THEN Outcome(s, JsError(Msg(DestructureText, NoPath, "")), NoFx)
  ELSE IF ~Exists(s.files, s.lastImagePath.path)
  THEN Outcome(s, McpError("InvalidRequest", Msg(LastImageMissingText, s.lastImagePath.path, "")), NoFx)
  ELSE editImage(s, EditArgs(s.lastImagePath, args.f.prompt, args.f.referenceImages), o)

\* variant: Math.floor in place of Math.round
RoundKBFloor(size) == size \div 1024

\* Math.round(size / 1024)
RoundKB(size) == (size + 512) \div 1024

\* variant: a missing file clears the reference
getLastImageInfoClears(s) ==
  IF ~Truthy(s.lastImagePath)
  THEN Outcome(s, Ok(<<TextItem([template |-> "no-image"])>>), NoFx)
  ELSE IF Exists(s.files, s.lastImagePath.path)
  THEN Outcome(s, Ok(<<TextItem([template |-> "info", path |-> s.lastImagePath.path,
                                 sizeKB |-> RoundKB(FileAt(s.files, s.lastImagePath.path).len)])>>), NoFx)
  ELSE Outcome([s EXCEPT !.lastImagePath = Null],
               Ok(<<TextItem([template |-> "not-found", path |-> s.lastImagePath.path])>>), NoFx)

\* variant: a missing file is reported as an error, as continue_editing does
getLastImageInfoStrict(s) ==
  IF ~Truthy(s.lastImagePath)
  THEN Outcome(s, Ok(<<TextItem([template |-> "no-image"])>>), NoFx)
  ELSE IF Exists(s.files, s.lastImagePath.path)
  THEN Outcome(s, Ok(<<TextItem([template |-> "info", path |-> s.lastImagePath.path,
                                 sizeKB |-> RoundKB(FileAt(s.files, s.lastImagePath.path).len)])>>), NoFx)
  ELSE Outcome(s, McpError("InvalidRequest",
                           Msg(LastImageMissingText, s.lastImagePath.path, "")), NoFx)

getLastImageInfo(s) ==
  IF ~Truthy(s.lastImagePath)
  THEN Outcome(s, Ok(<<TextItem([template |-> "no-image"])>>), NoFx)
  ELSE IF Exists(s.files, s.lastImagePath.path)
  THEN Outcome(s, Ok(<<TextItem([template |-> "info", path |-> s.lastImagePath.path,
                                 sizeKB |-> RoundKB(FileAt(s.files, s.lastImagePath.path).len)])>>), NoFx)
  ELSE Outcome(s, Ok(<<TextItem([template |-> "not-found", path |-> s.lastImagePath.path])>>), NoFx)

----------------------------------------------------------------------------
(* configure_gemini_token, get_configuration_status, startup                *)

\* variant: the new members are merged into the file that is already there
saveConfigMerged(s) ==
  IF s.config # Null
  THEN [s EXCEPT !.configFile =
          [kind |-> "json",
           members |-> JSONstringify(s.config).members \cup
                       { m \in s.configFile.members :
                           \A n \in JSONstringify(s.config).members : n.k # m.k }]]
  ELSE s

saveConfig(s) ==
  IF s.config # Null THEN [s EXCEPT !.configFile = JSONstringify(s.config)] ELSE s

\* variant: the endpoint is validated as given, an empty string included
ConfigDataAsGiven(args) == MkConfig(args.f.apiKey, args.f.baseUrl)

\* configData as the handler builds it from the arguments
ConfigData(args) ==
  MkConfig(args.f.apiKey, IF Truthy(args.f.baseUrl) THEN args.f.baseUrl ELSE Undef)

\* variant: a configure call leaves the provenance as it was
Configured1KeepsSource(s, args) ==
  [s EXCEPT !.config = ConfigData(args),
            !.genAI = NewClient(args.f.apiKey, args.f.baseUrl)]

\* the fields after this.config, this.genAI and this.configSource are assigned
Configured1(s, args) ==
  [s EXCEPT !.config = ConfigData(args),
            !.genAI = NewClient(args.f.apiKey, args.f.baseUrl),
            !.configSource = "config_file"]

\* variant: the file is written before the new credential is assigned
configureGeminiTokenSavesFirst(s, args, o) ==
  IF args.t # "object"
  THEN Outcome(s, JsError(Msg(DestructureText, NoPath, "")), NoFx)
  ELSE IF ~SchemaOk(ConfigData(args))
  THEN Outcome(s, McpError("InvalidParams",
                  Msg("Invalid configuration: ", NoPath, FirstIssue(ConfigData(args)))), NoFx)
  ELSE IF o.saveFail
  THEN Outcome(Configured1(s, args), JsError(Msg("writeFile failed", NoPath, "")), NoFx)
  ELSE Outcome(Configured1(saveConfig(s), args),
               Ok(<<TextItem([template |-> "configured", baseUrl |-> ConfigData(args).baseUrl])>>),
               NoFx)

\* variant: the new credential is assigned before the payload is validated
configureGeminiTokenAssignsFirst(s, args, o) ==
  IF args.t # "object"
  THEN Outcome(s, JsError(Msg(DestructureText, NoPath, "")), NoFx)
  ELSE IF ~SchemaOk(ConfigData(args))
  THEN Outcome(Configured1(s, args), McpError("InvalidParams",
                  Msg("Invalid configuration: ", NoPath, FirstIssue(ConfigData(args)))), NoFx)
  ELSE IF o.saveFail
  THEN Outcome(Configured1(s, args), JsError(Msg("writeFile failed", NoPath, "")), NoFx)
  ELSE Outcome(saveConfig(Configured1(s, args)),
               Ok(<<TextItem([template |-> "configured", baseUrl |-> ConfigData(args).baseUrl])>>),
               NoFx)

configureGeminiToken(s, args, o) ==
  IF args.t # "object"
  THEN Outcome(s, JsError(Msg(DestructureText, NoPath, "")), NoFx)
  ELSE IF ~SchemaOk(ConfigData(args))
  THEN Outcome(s, McpError("InvalidParams",
                  Msg("Invalid configuration: ", NoPath, FirstIssue(ConfigData(args)))), NoFx)
  ELSE IF o.saveFail
  THEN Outcome(Configured1(s, args), JsError(Msg("writeFile failed", NoPath, "")), NoFx)
  ELSE Outcome(saveConfig(Configured1(s, args)),
               Ok(<<TextItem([template |-> "configured", baseUrl |-> ConfigData(args).baseUrl])>>),
               NoFx)

getConfigurationStatus(s) ==
  Outcome(s,
    Ok(<<TextItem(
      [template |-> "status",
       configured |-> ensureConfigured(s),
       baseUrl |-> IF ensureConfigured(s) /\ Truthy(s.config.baseUrl) THEN s.config.baseUrl ELSE Undef,
       source |-> IF ensureConfigured(s) /\ s.configSource \in {"environment", "config_file"}
                  THEN s.configSource ELSE "",
       envBaseUrl |-> ensureConfigured(s) /\ s.configSource = "environment" /\ Truthy(envBaseUrl)])>>),
    NoFx)

\* the configuration the environment variables describe
EnvData(envKey, envUrl) == MkConfig(envKey, IF Truthy(envUrl) THEN envUrl ELSE Undef)

\* this.config, this.genAI and this.configSource once a source has been accepted
Adopt(s, c, source) ==
  [s EXCEPT !.config = c, !.genAI = NewClient(c.geminiApiKey, c.baseUrl), !.configSource = source]

FileOk(s) == s.configFile.kind = "json" /\ SchemaOk(JSONparse(s.configFile))

\* variant: the persisted file is consulted before the environment
loadConfigFileFirst(s, envKey, envUrl) ==
  IF FileOk(s)
  THEN Adopt(s, JSONparse(s.configFile), "config_file")
  ELSE IF Truthy(envKey) /\ SchemaOk(EnvData(envKey, envUrl))
  THEN Adopt(s, EnvData(envKey, envUrl), "environment")
  ELSE [s EXCEPT !.configSource = "not_configured"]

\* variant: the persisted file is adopted as soon as it is JSON, unvalidated
loadConfigUnvalidated(s, envKey, envUrl) ==
  IF Truthy(envKey) /\ SchemaOk(EnvData(envKey, envUrl))
  THEN Adopt(s, EnvData(envKey, envUrl), "environment")
  ELSE IF s.configFile.kind = "json"
  THEN Adopt(s, JSONparse(s.configFile), "config_file")
  ELSE [s EXCEPT !.configSource = "not_configured"]

loadConfig(s, envKey, envUrl) ==
  IF Truthy(envKey) /\ SchemaOk(EnvData(envKey, envUrl))
  THEN Adopt(s, EnvData(envKey, envUrl), "environment")
  ELSE IF FileOk(s)
  THEN Adopt(s, JSONparse(s.configFile), "config_file")
  ELSE [s EXCEPT !.configSource = "not_configured"]

----------------------------------------------------------------------------
(* The tool listing and the CallTool dispatcher                             *)

ListTools ==
  {"configure_gemini_token", "generate_image", "edit_image",
   "get_configuration_status", "continue_editing", "get_last_image_info"}

\* variant: the dispatcher wraps every error, an McpError included
SurfacedAll(r) ==
  IF r.res.ok THEN r
  ELSE Outcome(r.s, Rethrow("InternalError", "Tool execution failed: ", r.res), r.fx)

\* catch (error) of the dispatcher: an McpError passes, anything else is wrapped
Surfaced(r) ==
  IF r.res.ok \/ r.res.mcp THEN r
  ELSE Outcome(r.s, Rethrow("InternalError", "Tool execution failed: ", r.res), r.fx)

UnknownToolError(s, name) ==
  Outcome(s, McpError("MethodNotFound", Msg("Unknown tool: ", NoPath, name)), NoFx)

\* variant: get_last_image_info is listed but has no case in the switch
CallToolUnrouted(s, name, args, o) ==
  Surfaced(CASE name = "configure_gemini_token" -> configureGeminiToken(s, args, o)
             [] name = "generate_image" -> generateImage(s, args, o)
             [] name = "edit_image" -> editImage(s, args, o)
             [] name = "get_configuration_status" -> getConfigurationStatus(s)
             [] name = "continue_editing" -> continueEditing(s, args, o)
             [] OTHER -> UnknownToolError(s, name))

CallTool(s, name, args, o) ==
  Surfaced(CASE name = "configure_gemini_token" -> configureGeminiToken(s, args, o)
             [] name = "generate_image" -> generateImage(s, args, o)
             [] name = "edit_image" -> editImage(s, args, o)
             [] name = "get_configuration_status" -> getConfigurationStatus(s)
             [] name = "continue_editing" -> continueEditing(s, args, o)
             [] name = "get_last_image_info" -> getLastImageInfo(s)
             [] OTHER -> UnknownToolError(s, name))

----------------------------------------------------------------------------
(* Inputs: the arguments a client sends and the outcomes of the             *)
(* environment.                                                             *)

ImgA == "QUJD"
ImgB == "REVG"
PartT == TextPart("a banana")
PartA == InlinePart(ImgA, "image/jpeg")
PartB == InlinePart(ImgB, "")
PartE == InlinePart("", "image/png")

StopParts == { <<>>, <<PartT>>, <<PartE>>, <<PartA>>, <<PartT, PartB>>, <<PartA, PartB>> }

Responses ==
  {Rejected, Response(<<>>),
   Response(<<Candidate("", <<PartA>>)>>),
   Response(<<Candidate("SAFETY", <<PartA>>)>>),
   Response(<<Candidate("MAX_TOKENS", <<PartA>>)>>)}
  \cup { Response(<<Candidate("STOP", ps)>>) : ps \in StopParts }

RECURSIVE ImageCount(_)
ImageCount(parts) ==
  IF parts = <<>> THEN 0
  ELSE (IF Head(parts).inline /\ Head(parts).data # "" THEN 1 ELSE 0) + ImageCount(Tail(parts))

\* the response passes the completeness checks, so the handler goes on to write
Accepted(resp) ==
  /\ resp.kind = "resp"
  /\ Len(resp.candidates) > 0
  /\ resp.candidates[1].finishReason \in {"STOP", "MAX_TOKENS"}

Images(resp) == IF Accepted(resp) THEN ImageCount(resp.candidates[1].parts) ELSE 0

NoOracle ==
  [resp |-> Rejected, ids |-> <<1, 1>>, failAt |-> 0, mkdirFail |-> FALSE, saveFail |-> FALSE]

\* the suffixes of the files an accepted response makes the handler write
IdSeqs(n) == { [k \in 1..2 |-> IF k <= n THEN f[k] ELSE 1] : f \in [1..n -> 1..MaxId] }

\* one oracle per distinguishable course of a call that got the response resp
OraclesOf(resp) ==
  IF ~Accepted(resp)
  THEN { [NoOracle EXCEPT !.resp = resp] }
  ELSE { [NoOracle EXCEPT !.resp = resp, !.mkdirFail = TRUE] } \cup
       { [NoOracle EXCEPT !.resp = resp, !.ids = ids, !.failAt = k] :
           ids \in IdSeqs(Images(resp)), k \in 0..Images(resp) }

Oracles == UNION { OraclesOf(resp) : resp \in Responses }

PlainOracles ==
  { NoOracle, [NoOracle EXCEPT !.resp = Response(<<Candidate("STOP", <<PartT, PartB>>)>>)] }

Prompts == {Undef, Str("add a hat")}

\* the paths a reference list is drawn from: two readable files and a missing one
RefPaths == {PathStr(RefPath), PathStr(NotesPath), PathStr(GonePath)}

\* reference lists of distinct paths
RefSeqs ==
  UNION { { q \in [1..n -> RefPaths] : \A i, j \in 1..n : i # j => q[i] # q[j] } :
          n \in 0..MaxRefs }

RefValues == {Undef, Str("x")} \cup { Arr(q) : q \in RefSeqs }

ConfigureArgs ==
  {Undef} \cup
  { Obj([apiKey |-> k, baseUrl |-> u]) :
      k \in {Undef, Num(7), Str(""), Str("key-1")},
      u \in {Undef, Str(""), Str("https://proxy.example.com"), Str(MalformedUrl)} }

GenerateArgs == {Undef} \cup { Obj([prompt |-> p]) : p \in Prompts }

EditArgsSet ==
  {Undef} \cup
  { EditArgs(PathStr(PhotoPath), p, r) : p \in Prompts, r \in RefValues } \cup
  { EditArgs(ip, p, Undef) : ip \in {Undef, PathStr(GonePath)}, p \in Prompts }

ContinueArgs ==
  {Undef} \cup { Obj([prompt |-> p, referenceImages |-> r]) : p \in Prompts, r \in RefValues }

\* a well-formed request for each generation tool
SampleArgs(name) ==
  CASE name = "generate_image" -> Obj([prompt |-> Str("add a hat")])
    [] name = "edit_image" -> EditArgs(PathStr(PhotoPath), Str("add a hat"), Undef)
    [] name = "continue_editing" -> Obj([prompt |-> Str("add a hat"), referenceImages |-> Undef])

\* calls that carry the prompt and a reference list with one unreadable path
PlainRefs == {Arr(<<PathStr(GonePath), PathStr(RefPath)>>)}
PlainArgs(args) ==
  /\ args.t = "object"
  /\ args.f.prompt = Str("add a hat")
  /\ "referenceImages" \in DOMAIN args.f => args.f.referenceImages \in PlainRefs

UnknownNames == {"configure_credential", "delete_image"}

EnvKeys == {Undef, Str(""), Str("key-env")}
EnvUrls == {Undef, Str(""), Str("https://proxy.example.com"), Str(MalformedUrl)}

ConfigFiles ==
  {NoConfigFile, GarbageFile,
   JSONstringify(MkConfig(Str("key-file"), Undef)),
   JSONstringify(MkConfig(Str("key-file"), Str("https://proxy.example.com"))),
   JSONstringify(MkConfig(Str(""), Undef)),
   JSONstringify(MkConfig(Str("key-file"), Str(MalformedUrl))),
   JSONstringify(MkConfig(Undef, Str("https://proxy.example.com")))}

----------------------------------------------------------------------------
(* The state machine                                                        *)

Idle == [name |-> ""]

EmptyDir(h) == [p \in OutPaths(h) |-> NoFile]

\* the fields as the constructor leaves them, in any environment
InitFields ==
  /\ config = Null
  /\ genAI = Null
  /\ lastImagePath = Null
  /\ configSource = "not_configured"
  /\ pc = "boot"
  /\ lastCall = Idle

\* a server started with neither an environment key nor a persisted file
Init ==
  /\ InitFields
  /\ host \in {h \in Hosts : h.platform = "linux" /\ h.cwd[1] = "srv"}
  /\ files = EmptyDir(host)
  /\ envApiKey = Undef
  /\ envBaseUrl = Undef
  /\ configFile = NoConfigFile

InitStartup ==
  /\ InitFields
  /\ host \in Hosts
  /\ files = EmptyDir(host)
  /\ envApiKey \in EnvKeys
  /\ envBaseUrl \in EnvUrls
  /\ configFile \in ConfigFiles

Install(s) ==
  /\ config' = s.config
  /\ genAI' = s.genAI
  /\ lastImagePath' = s.lastImagePath
  /\ configSource' = s.configSource
  /\ files' = s.files
  /\ configFile' = s.configFile
  /\ UNCHANGED <<envApiKey, envBaseUrl, host>>

\* run(): loadConfig, then the transport is connected
Run ==
  /\ pc = "boot"
  /\ Install(loadConfig(Cur, envApiKey, envBaseUrl))
  /\ pc' = "idle"
  /\ UNCHANGED lastCall

\* the handler has run with outcome r: its effects and its result
Deliver(name, args, o, r) ==
  /\ Install(r.s)
  /\ lastCall' = [name |-> name, args |-> args, o |-> o, pre |-> Cur,
                  res |-> r.res, fx |-> r.fx]
  /\ pc' = "responded"

Handle(name, args, o) ==
  \E r \in {CallTool(Cur, name, args, o)} : Deliver(name, args, o, r)

\* the environment's choices matter only to a call that gets as far as the request
Reaches(name, args) == CallTool(Cur, name, args, NoOracle).fx.requests # <<>>

\* every course of the call for the plain arguments, two courses for the others
OraclesFor(name, args) ==
  IF ~Reaches(name, args) THEN {NoOracle}
  ELSE IF PlainArgs(args) THEN Oracles
  ELSE PlainOracles

\* saving the configuration can fail only for a payload that gets that far
ConfigureOracles(args) ==
  IF args.t = "object" /\ SchemaOk(ConfigData(args))
  THEN {NoOracle, [NoOracle EXCEPT !.saveFail = TRUE]}
  ELSE {NoOracle}

ConfigureGeminiToken ==
  /\ pc = "idle"
  /\ \E args \in ConfigureArgs : \E o \in ConfigureOracles(args) :
       Handle("configure_gemini_token", args, o)

GenerateImage ==
  /\ pc = "idle"
  /\ \E args \in GenerateArgs : \E o \in OraclesFor("generate_image", args) :
       Handle("generate_image", args, o)

EditImage ==
  /\ pc = "idle"
  /\ \E args \in EditArgsSet : \E o \in OraclesFor("edit_image", args) :
       Handle("edit_image", args, o)

ContinueEditing ==
  /\ pc = "idle"
  /\ \E args \in ContinueArgs : \E o \in OraclesFor("continue_editing", args) :
       Handle("continue_editing", args, o)

GetConfigurationStatus ==
  /\ pc = "idle"
  /\ Handle("get_configuration_status", Undef, NoOracle)

GetLastImageInfo ==
  /\ pc = "idle"
  /\ Handle("get_last_image_info", Undef, NoOracle)

UnknownTool ==
  /\ pc = "idle"
  /\ \E name \in UnknownNames, args \in {Undef, Obj([prompt |-> Str("add a hat")])} :
       Handle(name, args, NoOracle)

\* the response is delivered and the server waits for the next request
Respond ==
  /\ pc = "responded"
  /\ pc' = "idle"
  /\ lastCall' = Idle
  /\ UNCHANGED <<config, genAI, lastImagePath, configSource, files, configFile,
                 envApiKey, envBaseUrl, host>>

\* somebody removes an output file between two calls
RemoveFile ==
  /\ pc = "idle"
  /\ \E p \in DOMAIN files :
       /\ files[p] # NoFile
       /\ files' = [files EXCEPT ![p] = NoFile]
  /\ UNCHANGED <<config, genAI, lastImagePath, configSource, configFile,
                 envApiKey, envBaseUrl, host, pc, lastCall>>

Next ==
  \/ Run
  \/ ConfigureGeminiToken
  \/ GenerateImage
  \/ EditImage
  \/ ContinueEditing
  \/ GetConfigurationStatus
  \/ GetLastImageInfo
  \/ UnknownTool
  \/ Respond
  \/ RemoveFile

Spec == Init /\ [][Next]_vars

SpecStartup == InitStartup /\ [][Run]_vars

\* a server started in any environment, then configured, asked for its
\* status, and used to generate images
NextSources ==
  \/ Run
  \/ ConfigureGeminiToken
  \/ GenerateImage
  \/ GetConfigurationStatus
  \/ GetLastImageInfo
  \/ Respond
  \/ RemoveFile

SpecSources == InitStartup /\ [][NextSources]_vars

\* a server configured from the environment that edits the caller's files,
\* whatever their extension, alone or with one reference image
InitMime ==
  /\ InitFields
  /\ host \in Hosts
  /\ files = EmptyDir(host)
  /\ envApiKey = Str("key-env")
  /\ envBaseUrl \in {Undef, Str("https://proxy.example.com")}
  /\ configFile = NoConfigFile

MimeRefs == {Undef} \cup { Arr(<<PathStr(p)>>) : p \in MimePaths }

EditAnyImage ==
  /\ pc = "idle"
  /\ \E p \in MimePaths, r \in MimeRefs, o \in PlainOracles :
       Handle("edit_image", EditArgs(PathStr(p), Str("add a hat"), r), o)

NextMime ==
  \/ Run
  \/ EditAnyImage
  \/ Respond

SpecMime == InitMime /\ [][NextMime]_vars

\* a server started on one host in any environment and sent every tool, the
\* generation tools with one well-formed request each
InitLifecycle ==
  /\ InitFields
  /\ host \in {h \in Hosts : h.platform = "linux" /\ h.cwd[1] = "srv"}
  /\ files = EmptyDir(host)
  /\ envApiKey \in EnvKeys
  /\ envBaseUrl \in EnvUrls
  /\ configFile \in ConfigFiles

GenerationCall ==
  /\ pc = "idle"
  /\ \E name \in {"generate_image", "edit_image", "continue_editing"} :
       \E args \in {Undef, SampleArgs(name)} : \E o \in PlainOracles :
         Handle(name, args, o)

NextLifecycle ==
  \/ Run
  \/ ConfigureGeminiToken
  \/ GenerationCall
  \/ GetConfigurationStatus
  \/ GetLastImageInfo
  \/ UnknownTool
  \/ Respond
  \/ RemoveFile

SpecLifecycle == InitLifecycle /\ [][NextLifecycle]_vars

----------------------------------------------------------------------------
(* Handlers that interleave: continue_editing is suspended at its           *)
(* await fs.access(...) while another generation call runs.  While          *)
(* pc = "access", lastCall holds the suspended call: the value of           *)
(* lastImagePath its if-test read, the value it passed to fs.access and     *)
(* whether that file was found.                                             *)

\* the checks of continue_editing that come before its first await pass
ReachesAccess(s, args) ==
  ensureConfigured(s) /\ Truthy(s.lastImagePath) /\ args.t = "object"

\* continue_editing from the point where fs.access has settled: the catch
\* and the delegation both read this.lastImagePath again
continueAfterAccess(s, found, args, o) ==
  Surfaced(IF ~found
           THEN Outcome(s, McpError("InvalidRequest",
                                    Msg(LastImageMissingText, s.lastImagePath.path, "")), NoFx)
           ELSE editImage(s, EditArgs(s.lastImagePath, args.f.prompt, args.f.referenceImages), o))

\* generate_image or edit_image, from request to response
ImageCall ==
  /\ pc = "idle"
  /\ \E name \in {"generate_image", "edit_image"} : \E o \in PlainOracles :
       Handle(name, SampleArgs(name), o)

\* continue_editing up to await fs.access(this.lastImagePath); a call that
\* fails an earlier check is answered at once
ContinueAccess ==
  /\ pc = "idle"
  /\ \E args \in {Undef, SampleArgs("continue_editing")} :
       IF ReachesAccess(Cur, args)
       THEN /\ pc' = "access"
            /\ lastCall' = [name |-> "continue_editing", args |-> args, pre |-> Cur,
                            tested |-> lastImagePath, checked |-> lastImagePath,
                            found |-> Exists(files, lastImagePath.path)]
            /\ UNCHANGED <<config, genAI, lastImagePath, configSource, files, configFile,
                           envApiKey, envBaseUrl, host>>
       ELSE Handle("continue_editing", args, NoOracle)

\* another generate_image or edit_image call runs while continue_editing is
\* suspended; its response goes to its own caller
Overlap ==
  /\ pc = "access"
  /\ \E name \in {"generate_image", "edit_image"} : \E o \in PlainOracles :
       \E r \in {CallTool(Cur, name, SampleArgs(name), o)} : Install(r.s)
  /\ UNCHANGED <<pc, lastCall>>

\* continue_editing resumes after the await and runs to its response
ContinueDelegate ==
  /\ pc = "access"
  /\ \E o \in PlainOracles :
       \E r \in {continueAfterAccess(Cur, lastCall.found, lastCall.args, o)} :
         /\ Install(r.s)
         /\ lastCall' = [name |-> "continue_editing", args |-> lastCall.args, o |-> o,
                         pre |-> lastCall.pre, res |-> r.res, fx |-> r.fx,
                         tested |-> lastCall.tested, checked |-> lastCall.checked,
                         found |-> lastCall.found]
  /\ pc' = "responded"

NextInterleaved ==
  \/ Run
  \/ ConfigureGeminiToken
  \/ ImageCall
  \/ ContinueAccess
  \/ Overlap
  \/ ContinueDelegate
  \/ Respond
  \/ RemoveFile

SpecInterleaved == Init /\ [][NextInterleaved]_vars

----------------------------------------------------------------------------
(* Properties                                                               *)

Responded == pc = "responded"
ImageTools == {"generate_image", "edit_image", "continue_editing"}
Failed == Responded /\ ~lastCall.res.ok
Configured(s) == s.config # Null /\ s.genAI # Null
LastWritten == lastCall.fx.writes[Len(lastCall.fx.writes)]

\* a generate or edit call has just succeeded and wrote at least one image
ProducedImage ==
  /\ Responded
  /\ lastCall.name \in ImageTools
  /\ lastCall.res.ok
  /\ lastCall.fx.writes # <<>>

\* the text a get_last_image_info call returns in the current state
InfoText == CallTool(Cur, "get_last_image_info", Undef, NoOracle).res.content[1].text


C2_NotConfiguredFails ==
  (/\ Responded
   /\ lastCall.name \in ImageTools
   /\ (lastCall.pre.config = Null \/ lastCall.pre.genAI = Null))
  => /\ ~lastCall.res.ok
     /\ lastCall.res.code = "InvalidRequest"
     /\ lastCall.res.message.text = NotConfiguredText
     /\ lastCall.fx = NoFx
     /\ Cur = lastCall.pre

C2_Witness ==
  /\ Responded
  /\ lastCall.name = "edit_image"
  /\ lastCall.pre.config = Null
  /\ lastCall.args = EditArgs(PathStr(PhotoPath), Str("add a hat"), Undef)
  /\ ~lastCall.res.ok

\* C3 (as stated): continue_editing called with an empty Session State fails
\* with the no-prior-image InvalidRequest error whatever its arguments, sends
\* no request and leaves Session State empty.
C3_AlwaysNoPriorImage ==
  (Responded /\ lastCall.name = "continue_editing" /\ lastCall.pre.lastImagePath = Null)
  => /\ ~lastCall.res.ok
     /\ lastCall.res.code = "InvalidRequest"
     /\ lastCall.res.message.text = NoPreviousImageText
     /\ lastCall.fx.requests = <<>>
     /\ lastImagePath = Null

\* C3 (amended): continue_editing called with an empty Session State fails
\* with InvalidRequest whatever its arguments, sends no request and leaves
\* Session State empty; the error is the no-prior-image error when a credential
\* is configured and the not-configured error when none is.
C3_EmptySessionFails ==
  (Responded /\ lastCall.name = "continue_editing" /\ lastCall.pre.lastImagePath = Null)
  => /\ ~lastCall.res.ok
     /\ lastCall.res.code = "InvalidRequest"
     /\ lastCall.res.message.text =
          (IF lastCall.pre.config # Null /\ lastCall.pre.genAI # Null
           THEN NoPreviousImageText ELSE NotConfiguredText)
     /\ lastCall.fx.requests = <<>>
     /\ lastImagePath = Null

C3_Witness ==
  /\ Responded
  /\ lastCall.name = "continue_editing"
  /\ lastCall.pre.lastImagePath = Null
  /\ lastCall.pre.config # Null
  /\ lastCall.args = Undef
  /\ lastCall.res.message.text = NoPreviousImageText

\* the recorded last image of the state before the call is gone from disk
LastImageGone(s) ==
  /\ s.lastImagePath # Null
  /\ FileAt(s.files, s.lastImagePath.path) = NoFile

PreChecksPass(s) ==
  /\ Configured(s)
  /\ s.lastImagePath # Null
  /\ FileAt(s.files, s.lastImagePath.path) # NoFile

\* the edit_image call continue_editing stands for
AsEditImage ==
  CallTool(lastCall.pre, "edit_image",
           Obj([imagePath |-> lastCall.pre.lastImagePath,
                prompt |-> lastCall.args.f.prompt,
                referenceImages |-> lastCall.args.f.referenceImages]),
           lastCall.o)

\* C5: when its pre-checks pass, continue_editing(prompt, referenceImages)
\* sends the same request, returns the same result or error and leaves the
\* same state as edit_image(imagePath = Session State, prompt,
\* referenceImages) run from the same state against the same environment.
C5_ContinueIsEdit ==
  (/\ Responded
   /\ lastCall.name = "continue_editing"
   /\ lastCall.args.t = "object"
   /\ PreChecksPass(lastCall.pre))
  => Outcome(Cur, lastCall.res, lastCall.fx) = AsEditImage

C5_Witness ==
  /\ Responded
  /\ lastCall.name = "continue_editing"
  /\ PreChecksPass(lastCall.pre)
  /\ lastCall.res.ok
  /\ lastCall.args.f.referenceImages = Arr(<<PathStr(GonePath), PathStr(RefPath)>>)
  /\ Len(lastCall.fx.requests[1].contents.parts) = 3
  /\ lastCall.fx.writes # <<>>

\* C6 (as stated): a generate_image, edit_image or continue_editing call that
\* ends in an error leaves Session State as it was before the call.
C6_ErrorKeepsSession ==
  (Failed /\ lastCall.name \in ImageTools) => lastImagePath = lastCall.pre.lastImagePath

\* C6 (amended): a generate_image, edit_image or continue_editing call that
\* ends in an error leaves Session State as it was before the call unless the
\* call had already written an output image; then Session State is the path of
\* the last image it wrote.
C6_ErrorKeepsSessionUnlessWritten ==
  (Failed /\ lastCall.name \in ImageTools)
  => IF lastCall.fx.writes = <<>>
     THEN lastImagePath = lastCall.pre.lastImagePath
     ELSE lastImagePath = PathStr(LastWritten.path)

C6_Witness ==
  /\ Failed
  /\ lastCall.name = "generate_image"
  /\ Len(lastCall.fx.writes) = 1
  /\ lastCall.o.failAt = 2
  /\ lastImagePath # lastCall.pre.lastImagePath

\* C7: Session State is empty at process start and, once it holds a path, it
\* holds a path in every later state; it is always empty or one output path.
C7_NeverCleared ==
  /\ lastImagePath = Null
  /\ [][ /\ lastImagePath # Null => lastImagePath' # Null
         /\ lastImagePath' \in {Null} \cup { PathStr(p) : p \in OutPaths(host) } ]_vars

C7_Witness ==
  /\ Responded
  /\ lastCall.name = "get_last_image_info"
  /\ lastCall.res.content[1].text.template = "not-found"
  /\ lastImagePath # Null
  /\ lastImagePath = lastCall.pre.lastImagePath

IsStr(x) == x.t = "string"
IsStrList(x) == x.t = "array" /\ \A i \in 1..Len(x.v) : IsStr(x.v[i])

\* a required argument is missing or an argument has the wrong type
InvalidArgs(name, args) ==
  \/ args.t # "object"
  \/ name = "configure_gemini_token" /\ ~IsStr(args.f.apiKey)
  \/ name \in ImageTools /\ ~IsStr(args.f.prompt)
  \/ name = "edit_image" /\ ~IsStr(args.f.imagePath)
  \/ /\ name \in {"edit_image", "continue_editing"}
     /\ args.f.referenceImages # Undef
     /\ ~IsStrList(args.f.referenceImages)

\* C8: configure, generate_image, edit_image and continue_editing called with
\* a required argument missing or an argument of the wrong type fail with
\* InvalidParams, and do so before any file is read or any request is sent.
C8_InvalidArgsRejected ==
  (/\ Responded
   /\ lastCall.name \in ImageTools \cup {"configure_gemini_token"}
   /\ InvalidArgs(lastCall.name, lastCall.args))
  => /\ ~lastCall.res.ok
     /\ lastCall.res.code = "InvalidParams"
     /\ lastCall.fx = NoFx

\* C9: a call whose name is not one of the six listed operations fails with
\* MethodNotFound and changes no state, and a call whose name is listed never
\* fails with MethodNotFound.
C9_UnknownOnlyIfUnlisted ==
  Responded =>
    IF lastCall.name \in ListTools
    THEN lastCall.res.ok \/ lastCall.res.code # "MethodNotFound"
    ELSE /\ ~lastCall.res.ok
         /\ lastCall.res.code = "MethodNotFound"
         /\ lastCall.fx = NoFx
         /\ Cur = lastCall.pre

C9_Witness ==
  /\ Responded
  /\ lastCall.name \notin ListTools
  /\ lastCall.res.code = "MethodNotFound"
  /\ lastImagePath # Null
  /\ config # Null

Started == pc = "idle"

EnvConfig == MkConfig(envApiKey, IF Truthy(envBaseUrl) THEN envBaseUrl ELSE Undef)

UsesEnvironment ==
  /\ config = EnvConfig
  /\ genAI = [t |-> "client", apiKey |-> envApiKey, baseUrl |-> EnvConfig.baseUrl]
  /\ configSource = "environment"

\* C10 (as stated): whenever the environment key is present and non-empty, the
\* credential after startup is the environment's key and endpoint and the
\* provenance is environment, whatever the persisted file holds.
C10_EnvAlwaysWins ==
  (Started /\ Truthy(envApiKey)) => UsesEnvironment

\* C10 (amended): whenever the environment key is present and non-empty and
\* the environment endpoint is absent, empty or a well-formed URL, the
\* credential after startup is the environment's key and endpoint and the
\* provenance is environment, whatever the persisted file holds.
C10_ValidEnvWins ==
  (/\ Started
   /\ Truthy(envApiKey)
   /\ (envBaseUrl \in {Undef, Str("")} \/ envBaseUrl.v \in WellFormedUrls))
  => UsesEnvironment

C10_Witness ==
  /\ Started
  /\ Truthy(envApiKey)
  /\ envBaseUrl = Str("https://proxy.example.com")
  /\ configFile = JSONstringify(MkConfig(Str("key-file"), Undef))
  /\ UsesEnvironment

\* the persisted file exists, is JSON, and holds a non-empty key and either no
\* endpoint or a well-formed one
FileValid ==
  /\ configFile.kind = "json"
  /\ \E m \in configFile.members :
       m.k = "geminiApiKey" /\ m.v.t = "string" /\ m.v.v # ""
  /\ \A m \in configFile.members :
       m.k = "baseUrl" => (m.v.t = "string" /\ m.v.v \in WellFormedUrls)

FileKey == (CHOOSE m \in configFile.members : m.k = "geminiApiKey").v

FileUrl ==
  IF \E m \in configFile.members : m.k = "baseUrl"
  THEN (CHOOSE m \in configFile.members : m.k = "baseUrl").v
  ELSE Undef

NotConfiguredError == McpError("InvalidRequest", Msg(NotConfiguredText, NoPath, ""))

\* every generation tool call made in the current state fails as not configured
GenerationRefused ==
  \A name \in ImageTools :
    \A args \in {Undef, SampleArgs(name)} :
      CallTool(Cur, name, args, NoOracle).res = NotConfiguredError

\* the environment gives no usable credential: no key, an empty key, or a key
\* with a malformed endpoint
EnvUnusable ==
  \/ ~Truthy(envApiKey)
  \/ (Truthy(envBaseUrl) /\ envBaseUrl.v \notin WellFormedUrls)

\* C11: after a startup that does not use the environment credential, a
\* persisted file that is JSON and validates gives the file's key and endpoint
\* as the credential with provenance config_file; otherwise there is no
\* credential, provenance is not_configured, the server is started all the
\* same, and every generation tool call is refused as not configured.
C11_FileFallback ==
  (Started /\ EnvUnusable)
  => IF FileValid
     THEN /\ config = MkConfig(FileKey, FileUrl)
          /\ genAI = [t |-> "client", apiKey |-> FileKey, baseUrl |-> FileUrl]
          /\ configSource = "config_file"
     ELSE /\ config = Null
          /\ genAI = Null
          /\ configSource = "not_configured"
          /\ GenerationRefused

C11_Witness ==
  /\ Started
  /\ envApiKey = Str("key-env")
  /\ envBaseUrl = Str(MalformedUrl)
  /\ configFile = JSONstringify(MkConfig(Str("key-file"), Str("https://proxy.example.com")))
  /\ config = MkConfig(Str("key-file"), Str("https://proxy.example.com"))
  /\ configSource = "config_file"

\* a configure call that carried an arguments object has just been answered
ConfigureCall ==
  /\ Responded
  /\ lastCall.name = "configure_gemini_token"
  /\ lastCall.args.t = "object"

GivenKey == lastCall.args.f.apiKey
GivenUrl == lastCall.args.f.baseUrl

HasKey == GivenKey.t = "string" /\ GivenKey.v # ""

RejectedAsInvalidParams == ~lastCall.res.ok /\ lastCall.res.code = "InvalidParams"

\* the text get_configuration_status returns in the current state
StatusText == CallTool(Cur, "get_configuration_status", Undef, NoOracle).res.content[1].text

\* the call succeeded, the status reports configured, generation is not refused
ConfigureTookEffect ==
  /\ lastCall.res.ok
  /\ StatusText.configured
  /\ \A name \in ImageTools :
       CallTool(Cur, name, SampleArgs(name), NoOracle).res # NotConfiguredError

ConfigureSucceeded == ConfigureCall /\ lastCall.res.ok

\* the text of a file that holds exactly the key k and, unless u is absent,
\* the endpoint u
FileOf(k, u) ==
  [kind |-> "json",
   members |-> {[k |-> "geminiApiKey", v |-> k]} \cup
               (IF u = Undef THEN {} ELSE {[k |-> "baseUrl", v |-> u]})]

\* C13 (as stated): after a successful configure the in-memory credential and
\* the persisted file both hold exactly the supplied key and exactly the
\* supplied endpoint (none when none was supplied), whatever credential was
\* active before, and the provenance is config_file.
C13_ExactlySupplied ==
  ConfigureSucceeded =>
    /\ config = MkConfig(GivenKey, GivenUrl)
    /\ configFile = FileOf(GivenKey, GivenUrl)
    /\ configSource = "config_file"

\* the endpoint the call supplied, an empty string counting as none
SuppliedUrl == IF GivenUrl \in {Undef, Str("")} THEN Undef ELSE GivenUrl

\* C13 (amended): after a successful configure the in-memory credential and
\* the persisted file both hold exactly the supplied key and the supplied
\* endpoint (none when none or an empty one was supplied), whatever credential
\* was active before, and the provenance is config_file.
C13_ReplacesInFull ==
  ConfigureSucceeded =>
    /\ config = MkConfig(GivenKey, SuppliedUrl)
    /\ configFile = FileOf(GivenKey, SuppliedUrl)
    /\ configSource = "config_file"

\* an environment credential with an endpoint is replaced by a bare key
C13_Witness ==
  /\ ConfigureSucceeded
  /\ lastCall.pre.configSource = "environment"
  /\ lastCall.pre.config.baseUrl = Str("https://proxy.example.com")
  /\ lastCall.pre.configFile = JSONstringify(MkConfig(Str("key-file"), Str("https://proxy.example.com")))
  /\ GivenUrl = Undef
  /\ config = MkConfig(Str("key-1"), Undef)
  /\ configFile = FileOf(Str("key-1"), Undef)

\* the outcome of invoking configure once more, with the payload of the call
\* just answered, the write of the file succeeding or not
Reconfigured(o) == CallTool(Cur, "configure_gemini_token", lastCall.args, o)

\* C14: after a successful configure, invoking configure again with the same
\* payload returns the same result and leaves the persisted file, the
\* in-memory credential, the client and the provenance as the first call left
\* them.
C14_ConfigureIdempotent ==
  ConfigureSucceeded =>
    /\ Reconfigured(NoOracle).res = lastCall.res
    /\ \A o \in ConfigureOracles(lastCall.args) : Reconfigured(o).s = Cur

\* the second of two successful configure calls in a row with one payload, the
\* first of which replaced an environment credential
C14_Witness ==
  /\ ConfigureSucceeded
  /\ envApiKey = Str("key-env")
  /\ GivenUrl = Str("https://proxy.example.com")
  /\ lastCall.pre.configSource = "config_file"
  /\ lastCall.pre.config = MkConfig(GivenKey, GivenUrl)
  /\ lastCall.pre.configFile = FileOf(GivenKey, GivenUrl)
  /\ Cur = lastCall.pre

ReportTools == {"get_configuration_status", "get_last_image_info"}

\* the result is a list of exactly one text item
OneTextItem(res) ==
  /\ res.ok
  /\ Len(res.content) = 1
  /\ res.content[1].type = "text"

\* C15: get_configuration_status and get_last_image_info never fail: in every
\* state, whatever the source of the credential and whether the last image is
\* unset, on disk or gone, each returns a result of exactly one text item.
C15_ReportsNeverFail ==
  (Responded /\ lastCall.name \in ReportTools) => OneTextItem(lastCall.res)

\* the last image is asked about after it was removed, on a server whose
\* credential came from the environment
C15_Witness ==
  /\ Responded
  /\ lastCall.name = "get_last_image_info"
  /\ lastCall.pre.configSource = "environment"
  /\ LastImageGone(lastCall.pre)
  /\ OneTextItem(lastCall.res)
  /\ lastCall.res.content[1].text.template = "not-found"

\* a generation tool has just been answered after it sent its request and the
\* external service returned a response
GotResponse ==
  /\ Responded
  /\ lastCall.name \in ImageTools
  /\ lastCall.fx.requests # <<>>
  /\ lastCall.o.resp.kind = "resp"

NoCandidate == Len(lastCall.o.resp.candidates) = 0
FinishReason == lastCall.o.resp.candidates[1].finishReason
NoStatus == ~NoCandidate /\ FinishReason = ""
BadStatus == ~NoCandidate /\ FinishReason \notin {"", "STOP", "MAX_TOKENS"}

\* C16: when the external response has no candidate, no completion status or
\* a completion status other than STOP and MAX_TOKENS, generate_image,
\* edit_image and continue_editing fail with InternalError (the message
\* carrying the status in the third case), write no file and leave the last
\* image reference as it was.
C16_IncompleteResponseFails ==
  (GotResponse /\ (NoCandidate \/ NoStatus \/ BadStatus))
  => /\ ~lastCall.res.ok
     /\ lastCall.res.code = "InternalError"
     /\ BadStatus => lastCall.res.message.detail = FinishReason
     /\ lastCall.fx.writes = <<>>
     /\ files = lastCall.pre.files
     /\ lastImagePath = lastCall.pre.lastImagePath

\* continue_editing gets a response stopped for safety that carries an image
C16_Witness ==
  /\ GotResponse
  /\ lastCall.name = "continue_editing"
  /\ BadStatus
  /\ FinishReason = "SAFETY"
  /\ ImageCount(lastCall.o.resp.candidates[1].parts) = 1
  /\ lastCall.res.code = "InternalError"
  /\ lastImagePath = lastCall.pre.lastImagePath

EditTools == {"edit_image", "continue_editing"}

\* an edit has just been answered that was given a list of reference paths
\* and got as far as sending its request
EditedWithRefs ==
  /\ Responded
  /\ lastCall.name \in EditTools
  /\ lastCall.args.t = "object"
  /\ lastCall.args.f.referenceImages.t = "array"
  /\ lastCall.fx.requests # <<>>

GivenRefs == lastCall.args.f.referenceImages.v

\* the image the edit starts from
PrimaryImage ==
  IF lastCall.name = "edit_image" THEN lastCall.args.f.imagePath
  ELSE lastCall.pre.lastImagePath

ReadableBefore(x) == FileAt(lastCall.pre.files, x.path) # NoFile

ReadableRefs == SelectSeq(GivenRefs, ReadableBefore)

\* the part of a request that carries the file at path x
PartOf(x) ==
  [kind |-> "inlineData", data |-> toBase64(FileAt(lastCall.pre.files, x.path)),
   mimeType |-> getMimeType(x.path), text |-> Undef]

SentParts == lastCall.fx.requests[1].contents.parts

\* the same call with only the readable references supplied
WithReadableRefs ==
  CallTool(lastCall.pre, lastCall.name,
           [lastCall.args EXCEPT !.f.referenceImages = Arr(ReadableRefs)], lastCall.o)

\* a result without the list of references its summary text quotes
SansRefs(res) ==
  IF res.ok THEN [res EXCEPT !.content[1].text.references = Undef] ELSE res

\* C17: in edit_image and continue_editing an unreadable reference is skipped:
\* the request carries the primary image, then the readable references in the
\* order given, then the prompt; and the call ends as the same call with only
\* the readable references would: same request, same success or error, same
\* image items, same files written, same state.
C17_UnreadableRefsSkipped ==
  EditedWithRefs =>
    /\ Len(lastCall.fx.requests) = 1
    /\ SentParts = <<PartOf(PrimaryImage)>>
                     \o [i \in 1..Len(ReadableRefs) |-> PartOf(ReadableRefs[i])]
                     \o <<PromptPart(lastCall.args.f.prompt)>>
    /\ \E w \in {WithReadableRefs} :
         /\ w.fx.requests = lastCall.fx.requests
         /\ w.fx.writes = lastCall.fx.writes
         /\ SansRefs(w.res) = SansRefs(lastCall.res)
         /\ w.s = Cur

\* a missing reference ahead of a readable one, and the edit succeeds
C17_Witness ==
  /\ EditedWithRefs
  /\ Len(GivenRefs) >= 2
  /\ Len(ReadableRefs) < Len(GivenRefs)
  /\ ReadableRefs # <<>>
  /\ ReadableRefs[1] # GivenRefs[1]
  /\ lastCall.res.ok
  /\ lastCall.fx.writes # <<>>

\* a generation tool has just returned a result
Produced ==
  /\ Responded
  /\ lastCall.name \in ImageTools
  /\ lastCall.res.ok

HoldsImage(part) == part.inline /\ part.data # ""

\* the image parts of the external response, in the order it returned them
ReturnedImages == SelectSeq(lastCall.o.resp.candidates[1].parts, HoldsImage)

\* C18: every successful result of generate_image, edit_image and
\* continue_editing is one text item followed by one image item per image the
\* call wrote, in the order the external response returned the images (no
\* image item when the response held only text).
C18_TextThenImages ==
  Produced =>
    /\ Len(lastCall.res.content) = 1 + Len(lastCall.fx.writes)
    /\ lastCall.res.content[1].type = "text"
    /\ Len(lastCall.fx.writes) = Len(ReturnedImages)
    /\ \A i \in 1..Len(ReturnedImages) :
         /\ lastCall.res.content[i + 1].type = "image"
         /\ lastCall.res.content[i + 1].data = ReturnedImages[i].data
         /\ lastCall.fx.writes[i].bytes = BufferFrom(ReturnedImages[i].data).len

\* a response with two different images
C18_Witness ==
  /\ Produced
  /\ Len(ReturnedImages) = 2
  /\ ReturnedImages[1].data # ReturnedImages[2].data
  /\ Len(lastCall.res.content) = 3

ErrorCodes == {"MethodNotFound", "InvalidParams", "InvalidRequest", "InternalError"}

\* the call failed with InternalError and its message carries the text m
InternalWith(m) ==
  /\ ~lastCall.res.ok
  /\ lastCall.res.code = "InternalError"
  /\ lastCall.res.message.text = m

\* the call failed with the category code, the error reaching the client as
\* the handler threw it
KeptAs(code) ==
  /\ ~lastCall.res.ok
  /\ lastCall.res.code = code
  /\ lastCall.res.message.wrap = <<"MCP error: ">>

\* a generation tool sent its request
Requested ==
  /\ Responded
  /\ lastCall.name \in ImageTools
  /\ lastCall.fx.requests # <<>>

\* the causes of failure
NetworkFailed == Requested /\ lastCall.o.resp.kind = "throw"

WriteFailed ==
  /\ GotResponse
  /\ ~NoCandidate
  /\ FinishReason \in {"STOP", "MAX_TOKENS"}
  /\ ~lastCall.o.mkdirFail
  /\ lastCall.o.failAt \in 1..Len(ReturnedImages)

PrimaryReadFailed ==
  /\ Responded
  /\ lastCall.name = "edit_image"
  /\ Configured(lastCall.pre)
  /\ lastCall.args.t = "object"
  /\ lastCall.args.f.imagePath.t = "string"
  /\ ~ReadableBefore(lastCall.args.f.imagePath)

PersistFailed ==
  /\ ConfigureCall
  /\ HasKey
  /\ GivenUrl \in {Undef, Str("")} \/ GivenUrl.v \in WellFormedUrls
  /\ lastCall.o.saveFail

PayloadInvalid ==
  /\ ConfigureCall
  /\ ~HasKey \/ (GivenUrl.t = "string" /\ GivenUrl.v \notin WellFormedUrls \cup {""})

NotConfiguredCall ==
  /\ Responded
  /\ lastCall.name \in ImageTools
  /\ ~Configured(lastCall.pre)

NoPriorImageCall ==
  /\ Responded
  /\ lastCall.name = "continue_editing"
  /\ Configured(lastCall.pre)
  /\ lastCall.pre.lastImagePath = Null

\* C19: every failing call surfaces one of the four categories; a failed
\* network call, an incomplete response, an unreadable primary image, a failed
\* write of an output image and a failed write of the configuration surface
\* as InternalError carrying the original message text; an invalid configure
\* payload, a missing credential and a missing prior image keep InvalidParams
\* or InvalidRequest, with the message as thrown.
C19_ErrorCategories ==
  Responded =>
    /\ ~lastCall.res.ok => lastCall.res.code \in ErrorCodes
    /\ NetworkFailed => InternalWith("request to the generation service failed")
    /\ (GotResponse /\ NoCandidate) => InternalWith("No candidates in response from Gemini API")
    /\ (GotResponse /\ NoStatus)
         => InternalWith("Response missing finish reason - generation may have been interrupted")
    /\ (GotResponse /\ BadStatus) => InternalWith("Generation failed with finish reason: ")
    /\ PrimaryReadFailed => InternalWith("readFile failed")
    /\ WriteFailed => InternalWith("writeFile failed")
    /\ PersistFailed => InternalWith("writeFile failed")
    /\ PayloadInvalid => KeptAs("InvalidParams")
    /\ NotConfiguredCall => KeptAs("InvalidRequest")
    /\ NoPriorImageCall => KeptAs("InvalidRequest")

\* the second of two output images cannot be written
C19_Witness ==
  /\ WriteFailed
  /\ lastCall.o.failAt = 2
  /\ InternalWith("writeFile failed")
  /\ lastCall.res.message.wrap # <<"MCP error: ">>

----------------------------------------------------------------------------
(* Mime inference                                                           *)

\* an edit_image call has been answered
EditCall == Responded /\ lastCall.name = "edit_image"

\* the parts of the request the call sent and the files it read for them
MimeParts == lastCall.fx.requests[1].contents.parts
MimeReads == lastCall.fx.reads

\* the documented table, the extension taken as it is written
MimeAsDocumented(e) ==
  CASE e \in {".jpg", ".jpeg"} -> "image/jpeg"
    [] e = ".png" -> "image/png"
    [] e = ".webp" -> "image/webp"
    [] OTHER -> "image/jpeg"

\* the documented table, the extension taken in any letter case
MimeIgnoringCase(e) ==
  CASE e \in {".jpg", ".jpeg", ".JPG", ".JPEG"} -> "image/jpeg"
    [] e \in {".png", ".PNG", ".Png"} -> "image/png"
    [] e \in {".webp", ".WEBP"} -> "image/webp"
    [] OTHER -> "image/jpeg"

\* C21 (as stated): every input file of an edit is sent with image/jpeg for
\* extension .jpg or .jpeg, image/png for .png, image/webp for .webp and
\* image/jpeg for every other extension or none; no path is rejected.
C21_MimeAsDocumented ==
  EditCall =>
    /\ Len(lastCall.fx.requests) = 1
    /\ Len(MimeParts) = Len(MimeReads) + 1
    /\ \A i \in 1..Len(MimeReads) :
         /\ MimeParts[i].kind = "inlineData"
         /\ MimeParts[i].mimeType = MimeAsDocumented(MimeReads[i].path.ext)

\* C21 (amended): every input file of an edit is sent with image/jpeg for
\* extension .jpg or .jpeg, image/png for .png, image/webp for .webp, the
\* extension compared without regard to letter case, and image/jpeg for every
\* other extension or none; no path is rejected.
C21_MimeIgnoringCase ==
  EditCall =>
    /\ Len(lastCall.fx.requests) = 1
    /\ Len(MimeParts) = Len(MimeReads) + 1
    /\ \A i \in 1..Len(MimeReads) :
         /\ MimeParts[i].kind = "inlineData"
         /\ MimeParts[i].mimeType = MimeIgnoringCase(MimeReads[i].path.ext)

C21_Witness ==
  /\ EditCall
  /\ lastCall.args.f.imagePath = PathStr(PicPath(".PNG"))
  /\ lastCall.args.f.referenceImages = Arr(<<PathStr(PicPath(".gif"))>>)
  /\ MimeParts[1].mimeType = "image/png"
  /\ MimeParts[2].mimeType = "image/jpeg"

----------------------------------------------------------------------------
(* The last-image reference                                                 *)

\* the file name prefix of the tool that writes the image
PrefixOf(name) == IF name = "generate_image" THEN "generated-" ELSE "edited-"

\* the paths the caller of the answered call supplied
SuppliedPaths(call) ==
  IF call.args.t # "object" THEN {}
  ELSE (IF "imagePath" \in DOMAIN call.args.f THEN {call.args.f.imagePath} ELSE {}) \cup
       (IF "referenceImages" \in DOMAIN call.args.f
        THEN { RefsOf(call.args.f.referenceImages)[i] :
                 i \in 1..Len(RefsOf(call.args.f.referenceImages)) }
        ELSE {})

\* lastImagePath is empty or names a .png file of the output directory
OwnOutput ==
  \/ lastImagePath = Null
  \/ /\ IsPathString(lastImagePath)
     /\ lastImagePath.path.dir = getImagesDirectory(host)
     /\ lastImagePath.path.prefix \in {"generated-", "edited-"}
     /\ lastImagePath.path.ext = ".png"
     /\ lastImagePath.path \notin UserFiles \cup {GonePath}

\* a step that answers a call which wrote a file leaves lastImagePath at the
\* last file that call wrote, named after the tool; any other step keeps it
FollowsLastWrite ==
  IF pc = "idle" /\ pc' = "responded" /\ lastCall'.fx.writes # <<>>
  THEN /\ lastImagePath' = PathStr(lastCall'.fx.writes[Len(lastCall'.fx.writes)].path)
       /\ lastImagePath'.path.prefix = PrefixOf(lastCall'.name)
       /\ files'[lastImagePath'.path] # NoFile
       /\ lastImagePath' \notin SuppliedPaths(lastCall')
  ELSE lastImagePath' = lastImagePath

\* C22: in every reachable state lastImagePath is empty or the path of a file
\* the server itself wrote in the computed output directory, with prefix
\* generated- when the last call that wrote was generate_image and edited- when
\* it was edit_image or continue_editing, always ending in .png; it is never a
\* path the caller supplied.
C22_SessionIsOwnOutput == []OwnOutput /\ [][FollowsLastWrite]_vars

C22_Witness ==
  /\ Responded
  /\ lastCall.name = "edit_image"
  /\ lastCall.pre.lastImagePath # Null
  /\ lastCall.pre.lastImagePath.path.prefix = "generated-"
  /\ lastCall.o.resp = Response(<<Candidate("STOP", <<PartA>>)>>)
  /\ lastCall.args.f.imagePath = PathStr(PhotoPath)
  /\ lastImagePath.path.prefix = "edited-"
  /\ lastImagePath.path.ext = ".png"

\* the answered call wrote no image file
WroteNothing == Responded /\ lastCall.fx.writes = <<>>

\* the ways an image tool call ends without writing: a failed pre-check, an
\* unreadable primary image, a failed request, a refused response, a
\* response that holds text only
EndedWithoutImage ==
  /\ WroteNothing
  /\ lastCall.name \in ImageTools
  /\ \/ lastCall.fx.requests = <<>>
     \/ lastCall.o.resp.kind = "throw"
     \/ ~Accepted(lastCall.o.resp)
     \/ lastCall.res.ok

\* C23: lastImagePath changes exactly when an output image file has been
\* written: a call that wrote no file (configure, the two reports, an unknown
\* tool, an image tool that failed its pre-checks, could not read the primary
\* image, got no usable response or got text only) leaves lastImagePath as it
\* was, and a call that wrote is an image tool and leaves it at the file it
\* wrote last.
C23_ChangesOnlyOnWrite ==
  Responded =>
    IF lastCall.fx.writes = <<>>
    THEN lastImagePath = lastCall.pre.lastImagePath
    ELSE /\ lastCall.name \in ImageTools
         /\ lastImagePath = PathStr(LastWritten.path)

C23_Witness ==
  /\ EndedWithoutImage
  /\ lastCall.name = "continue_editing"
  /\ lastCall.res.ok
  /\ lastCall.pre.lastImagePath # Null
  /\ lastImagePath = lastCall.pre.lastImagePath

----------------------------------------------------------------------------
(* Rejected configuration, credential and client                            *)

\* a configure call has just been rejected by the validation of its payload
FailedValidation == ConfigureCall /\ RejectedAsInvalidParams

\* a response that holds a description and one image
GoodOracle == [NoOracle EXCEPT !.resp = Response(<<Candidate("STOP", <<PartT, PartB>>)>>)]

\* generate_image called in the current state sends its request with the
\* client the server had before the call, and succeeds
StillGenerates ==
  \E r \in {CallTool(Cur, "generate_image", SampleArgs("generate_image"), GoodOracle)} :
    /\ r.res.ok
    /\ Len(r.fx.requests) = 1
    /\ r.s.genAI = lastCall.pre.genAI

\* C24: a configure call that fails validation (empty or missing key,
\* malformed endpoint) leaves the credential, the client, the provenance and
\* the persisted file exactly as they were before the call, and a server that
\* was configured before the call still generates images after it.
C24_RejectedConfigureKeepsAll ==
  FailedValidation =>
    /\ config = lastCall.pre.config
    /\ genAI = lastCall.pre.genAI
    /\ configSource = lastCall.pre.configSource
    /\ configFile = lastCall.pre.configFile
    /\ Configured(lastCall.pre) => StillGenerates

C24_Witness ==
  /\ FailedValidation
  /\ GivenKey = Str("key-1")
  /\ GivenUrl = Str(MalformedUrl)
  /\ lastCall.pre.configSource = "environment"
  /\ configFile # NoConfigFile
  /\ config = lastCall.pre.config
  /\ StillGenerates

\* the credential and the client are both there or both missing, and the
\* provenance says not_configured exactly when they are missing
CredentialAndClient ==
  pc # "boot" =>
    /\ config = Null <=> genAI = Null
    /\ configSource = "not_configured" <=> config = Null

\* no step takes a configured server back to the unconfigured state
StaysConfigured ==
  (config # Null /\ genAI # Null) => (config' # Null /\ genAI' # Null)

\* C26: in every state reachable after startup the credential and the client
\* are both present or both absent, and the provenance is not_configured
\* exactly when they are absent; once the server is configured no tool call
\* returns it to the unconfigured state.
C26_ConfiguredForGood == []CredentialAndClient /\ [][StaysConfigured]_vars

C26_Witness ==
  /\ Responded
  /\ lastCall.name = "continue_editing"
  /\ ~lastCall.res.ok
  /\ envApiKey = Str("key-env")
  /\ envBaseUrl = Undef
  /\ config = MkConfig(Str("key-1"), Undef)
  /\ genAI # Null
  /\ configSource = "config_file"

----------------------------------------------------------------------------
(* Interleaved handlers                                                     *)

\* a continue_editing call that was suspended at its existence check has
\* gone on to the edit logic and been answered
Delegated ==
  /\ Responded
  /\ lastCall.name = "continue_editing"
  /\ "checked" \in DOMAIN lastCall
  /\ lastCall.found
  /\ lastCall.fx.reads # <<>>

\* C25: when handlers interleave at their await points, the path
\* continue_editing tested non-empty, the path whose existence it verified and
\* the path it passed as primary input to the edit logic are one and the same,
\* also when another generate_image or edit_image call replaced lastImagePath
\* between the existence check and the delegation.
C25_EditsCheckedImage ==
  Delegated =>
    /\ lastCall.tested = lastCall.checked
    /\ lastCall.fx.reads[1] = lastCall.checked

====
